---------------------------- MODULE Spec2Model ----------------------------
(* Model of utils/port_utils.py: the port probe, the interactive port       *)
(* negotiation, the update of the PORT line of the env file, and main.      *)
(* Text is modelled as sequences of one-character strings, so that reading, *)
(* splitting, trimming, formatting and joining are computed as the code     *)
(* computes them.                                                           *)
EXTENDS Integers, Sequences, FiniteSets, TLC

VARIABLES
    file,        \* the env file on disk: [exists, text]
    pre,         \* the env file as the last call of update_env_port found it
    lastPort,    \* port argument of the last call of update_env_port (NoPort: none yet)
    prevPort,    \* port argument of the call before it, when that call returned
    ret,         \* outcome of the last call: "none", "True", "False", "OSError"
    fileOps,     \* the filesystem calls of the last call of update_env_port
    pc,          \* control point of the run of main
    host,        \* settings.HOST
    initial_port,\* settings.PORT
    port,        \* local variable port of prompt_for_available_port
    probes,      \* the calls of is_port_in_use so far: <<[port, inUse]>>
    ttyChecks,   \* the calls of sys.stdin.isatty() so far: <<[port, isatty]>>
    prompts,     \* the prompts written to stderr: <<[port, next]>>
    retries,     \* the number of "please answer y or n" lines written to stderr
    reads,       \* the ports for which input() was called so far
    answer,      \* what the last call of input() returned or raised (NoAnswer: none yet)
    yes,         \* number of 'y' answers
    exitStatus,  \* process exit status (NoExit while running)
    stdout,      \* lines printed to standard output
    net,         \* the network during one call of is_port_in_use: [addrs, listening]
    candidates,  \* the candidates _iter_hosts_for_port_check has still to yield
    addr_info_list, \* the resolved addresses the inner loop has still to try
    dialled,     \* the calls of getaddrinfo and connect_ex of the probe, in order
    inUse,       \* what is_port_in_use returned: "none", "True", "False"
    calls        \* the concurrent calls of update_env_port: <<[pc, port, lines, ret]>>

envVars == <<file, pre, lastPort, prevPort, ret, fileOps>>
negVars == <<pc, host, initial_port, port, probes, ttyChecks, prompts, retries,
             reads, answer, yes, exitStatus>>
probeVars == <<net, candidates, addr_info_list, dialled, inUse>>
auxVars == <<probeVars, calls>>
vars == <<envVars, negVars, stdout, auxVars>>

-----------------------------------------------------------------------------
(* Bounds of the model *)

BasePort == 8000
MaxLines == 2
MaxMainLines == 1
MaxIncrements == 2
MaxMalformed == 2

\* the largest TCP port
MaxTcpPort == 2^16 - 1

-----------------------------------------------------------------------------
(* Characters and strings *)

LF == "\n"
CR == "\r"
FF == "\f"
SP == " "
TAB == "\t"

\* the characters str.strip() removes, among those of the model
Whitespace == {SP, TAB, LF, CR, FF}

\* the line boundaries of str.splitlines(), among the characters of the model
LineBreaks == {LF, CR, FF}

Digits == <<"0", "1", "2", "3", "4", "5", "6", "7", "8", "9">>

RECURSIVE Str(_)
Str(n) ==
    IF n < 0 THEN <<"-">> \o Str(0 - n)
    ELSE IF n < 10 THEN <<Digits[n + 1]>>
    ELSE Str(n \div 10) \o <<Digits[(n % 10) + 1]>>

RECURSIVE LStrip(_)
LStrip(s) ==
    IF s # <<>> /\ Head(s) \in Whitespace THEN LStrip(Tail(s)) ELSE s

RECURSIVE RStrip(_)
RStrip(s) ==
    IF s # <<>> /\ s[Len(s)] \in Whitespace
    THEN RStrip(SubSeq(s, 1, Len(s) - 1))
    ELSE s

Strip(s) == RStrip(LStrip(s))

StartsWith(s, c) == s # <<>> /\ Head(s) = c

Contains(s, c) == \E i \in 1..Len(s) : s[i] = c

\* index of the first occurrence of c in s (s contains c)
IndexOf(s, c) == CHOOSE i \in 1..Len(s) : s[i] = c /\ \A j \in 1..(i - 1) : s[j] # c

\* the first element of s.split(c, 1)
SplitKey(s, c) == SubSeq(s, 1, IndexOf(s, c) - 1)

RECURSIVE UniversalNewlines(_)
UniversalNewlines(s) ==
    IF s = <<>> THEN <<>>
    ELSE IF Head(s) = CR
         THEN IF Len(s) >= 2 /\ s[2] = LF
              THEN <<LF>> \o UniversalNewlines(SubSeq(s, 3, Len(s)))
              ELSE <<LF>> \o UniversalNewlines(Tail(s))
         ELSE <<Head(s)>> \o UniversalNewlines(Tail(s))

RECURSIVE SplitFrom(_, _, _)
SplitFrom(s, i, cur) ==
    IF i > Len(s) THEN (IF cur = <<>> THEN <<>> ELSE <<cur>>)
    ELSE IF s[i] \in LineBreaks
         THEN IF s[i] = CR /\ i < Len(s) /\ s[i + 1] = LF
              THEN <<cur>> \o SplitFrom(s, i + 2, <<>>)
              ELSE <<cur>> \o SplitFrom(s, i + 1, <<>>)
         ELSE SplitFrom(s, i + 1, Append(cur, s[i]))

SplitLines(s) == SplitFrom(s, 1, <<>>)

RECURSIVE Join(_, _)
Join(lines, sep) ==
    IF lines = <<>> THEN <<>>
    ELSE IF Len(lines) = 1 THEN lines[1]
    ELSE lines[1] \o <<sep>> \o Join(Tail(lines), sep)

-----------------------------------------------------------------------------
(* update_env_port *)

KEY == <<"P", "O", "R", "T">>

NoPort == 0 - 1

NoExit == 0 - 1

NoAnswer == <<"none">>

GaiError == <<"gaierror">>
\* str.encode("idna") refuses a name with an empty label or one of 64
\* characters and more: getaddrinfo raises UnicodeError, not gaierror
LabelError == <<"UnicodeError">>

NoNet == [addrs |-> GaiError, listening |-> {}]

\* no call of is_port_in_use is followed step by step, and no concurrent
\* calls of update_env_port are under way
ProbeIdle ==
    /\ net = NoNet
    /\ candidates = <<>>
    /\ addr_info_list = <<>>
    /\ dialled = <<>>
    /\ inUse = "none"
    /\ calls = <<>>

NewAssignment(p) == KEY \o <<"=">> \o Str(p)

\* the lines the scan does not skip
IsCandidate(line) ==
    LET stripped == Strip(line)
    IN  ~ (stripped = <<>> \/ StartsWith(stripped, "#") \/ ~ Contains(stripped, "="))

\* a candidate line whose key is PORT
IsPortLine(line) ==
    LET stripped == Strip(line)
    IN  IsCandidate(line) /\ Strip(SplitKey(stripped, "=")) = KEY

PortIndexes(lines) == {i \in 1..Len(lines) : IsPortLine(lines[i])}

\* index of the line the scan stops at, 0 when it runs to the end
FirstPortIndex(lines) ==
    LET idxs == PortIndexes(lines)
    IN  IF idxs = {} THEN 0
        ELSE CHOOSE i \in idxs : \A j \in idxs : i <= j

\* path.read_text(encoding="utf-8")
ReadText(f) == UniversalNewlines(f.text)

\* lines, as read when the file exists
ReadLines(f) == IF f.exists THEN SplitLines(ReadText(f)) ELSE <<>>

\* bug: the text written lacks the final newline
WrittenText_NoTrailingNewline(lines) == Join(lines, LF)

\* "\n".join(lines) + "\n"
WrittenText(lines) == Join(lines, LF) \o <<LF>>

\* bug: the flag updated is not set on a replacement, so the line is appended too
Updated_AppendAlways(lines, p) ==
    LET idx == FirstPortIndex(lines)
    IN  IF idx = 0
        THEN [write |-> TRUE, lines |-> Append(lines, NewAssignment(p))]
        ELSE IF Strip(lines[idx]) = NewAssignment(p)
             THEN [write |-> FALSE, lines |-> lines]
             ELSE [write |-> TRUE,
                   lines |-> Append([lines EXCEPT ![idx] = NewAssignment(p)],
                                    NewAssignment(p))]

\* bug: no early return when the line already holds the assignment
Updated_NoEarlyReturn(lines, p) ==
    LET idx == FirstPortIndex(lines)
    IN  IF idx = 0
        THEN [write |-> TRUE, lines |-> Append(lines, NewAssignment(p))]
        ELSE [write |-> TRUE,
              lines |-> [lines EXCEPT ![idx] = NewAssignment(p)]]

\* bug: no break after the replacement, so every PORT line is rewritten
Updated_NoBreak(lines, p) ==
    LET idx == FirstPortIndex(lines)
    IN  IF idx = 0
        THEN [write |-> TRUE, lines |-> Append(lines, NewAssignment(p))]
        ELSE IF Strip(lines[idx]) = NewAssignment(p)
             THEN [write |-> FALSE, lines |-> lines]
             ELSE [write |-> TRUE,
                   lines |-> [i \in 1..Len(lines) |->
                                 IF IsPortLine(lines[i]) THEN NewAssignment(p)
                                 ELSE lines[i]]]

\* bug: the line is compared with the assignment without being trimmed
Updated_NoStrip(lines, p) ==
    LET idx == FirstPortIndex(lines)
    IN  IF idx = 0
        THEN [write |-> TRUE, lines |-> Append(lines, NewAssignment(p))]
        ELSE IF lines[idx] = NewAssignment(p)
             THEN [write |-> FALSE, lines |-> lines]
             ELSE [write |-> TRUE,
                   lines |-> [lines EXCEPT ![idx] = NewAssignment(p)]]

\* bug: the new assignment is inserted before the existing lines
Updated_Prepend(lines, p) ==
    LET idx == FirstPortIndex(lines)
    IN  IF idx = 0
        THEN [write |-> TRUE, lines |-> <<NewAssignment(p)>> \o lines]
        ELSE IF Strip(lines[idx]) = NewAssignment(p)
             THEN [write |-> FALSE, lines |-> lines]
             ELSE [write |-> TRUE,
                   lines |-> [lines EXCEPT ![idx] = NewAssignment(p)]]

\* the scan and what follows it: whether the file is written, and with which lines
Updated(lines, p) ==
    LET idx == FirstPortIndex(lines)
    IN  IF idx = 0
        THEN [write |-> TRUE, lines |-> Append(lines, NewAssignment(p))]
        ELSE IF Strip(lines[idx]) = NewAssignment(p)
             THEN [write |-> FALSE, lines |-> lines]
             ELSE [write |-> TRUE,
                   lines |-> [lines EXCEPT ![idx] = NewAssignment(p)]]

\* the file after the call returned with outcome u of the scan
FileAfter(f, u) ==
    IF u.write THEN [exists |-> TRUE, text |-> WrittenText(u.lines)] ELSE f

ReturnValue(u) == IF u.write THEN "True" ELSE "False"

\* mkdir, exists, read_text and write_text, in the order the call makes them
OpsOf(f, u) ==
    <<"mkdir", "exists">>
    \o (IF f.exists THEN <<"read_text">> ELSE <<>>)
    \o (IF u.write THEN <<"write_text">> ELSE <<>>)

-----------------------------------------------------------------------------
(* The env files and ports the model starts from *)

FooLine == <<"F", "O", "O", "=", "b", "a", "r">>
BlankLine == <<>>
\* a comment line that ends with "\r\n" when an "\n" follows it
CommentLine == <<"#">> \o NewAssignment(BasePort) \o <<CR>>
SpacedPortLine == <<SP>> \o KEY \o <<SP, "=", SP>> \o Str(BasePort)
PaddedPortLine == <<SP>> \o NewAssignment(BasePort) \o <<SP>>
\* a form feed, which splitlines() takes for a line boundary: the code sees
\* the line PORT, which has no separator, and the line PORT=<BasePort + 1>
FormFeedLine == KEY \o <<FF>> \o NewAssignment(BasePort + 1)

\* the texts between two "\n" of an env file
RawLines ==
    {BlankLine, FooLine, CommentLine, NewAssignment(BasePort),
     NewAssignment(BasePort + 1), SpacedPortLine, PaddedPortLine,
     FormFeedLine}

RawLineSeqs(n) == UNION {[1..k -> RawLines] : k \in 0..n}

NoFile == [exists |-> FALSE, text |-> <<>>]

\* the files of at most n raw lines, the last one terminated or not
FilesUpTo(n) ==
    {NoFile} \cup
    {[exists |-> TRUE, text |-> Join(ls, LF) \o t] :
        ls \in RawLineSeqs(n), t \in {<<>>, <<LF>>}}

EnvFiles == FilesUpTo(MaxLines)

PortChoices == BasePort..(BasePort + MaxIncrements)

-----------------------------------------------------------------------------
(* update_env_port called as a library function, any number of times *)

NegIdle ==
    /\ pc = "lib"
    /\ host = "0.0.0.0"
    /\ initial_port = BasePort
    /\ port = BasePort
    /\ probes = <<>>
    /\ ttyChecks = <<>>
    /\ prompts = <<>>
    /\ retries = 0
    /\ reads = <<>>
    /\ answer = NoAnswer
    /\ yes = 0
    /\ exitStatus = NoExit
    /\ stdout = <<>>
    /\ ProbeIdle

InitEnv ==
    /\ file \in EnvFiles
    /\ pre = file
    /\ lastPort = NoPort
    /\ prevPort = NoPort
    /\ ret = "none"
    /\ fileOps = <<>>
    /\ NegIdle

\* update_env_port(p) runs to its return
UpdateEnvPort(p) ==
    LET u == Updated(ReadLines(file), p)
    IN  /\ file' = FileAfter(file, u)
        /\ pre' = file
        /\ prevPort' = IF ret \in {"True", "False"} THEN lastPort ELSE NoPort
        /\ lastPort' = p
        /\ ret' = ReturnValue(u)
        /\ fileOps' = OpsOf(file, u)

\* update_env_port(p) raises OSError: in mkdir or read_text (the file is as it
\* was), or in write_text after the file was opened for writing (truncated)
UpdateEnvPortRaises(p) ==
    LET u == Updated(ReadLines(file), p)
    IN  /\ \/ file' = file /\ fileOps' = <<"mkdir">>
           \/ /\ u.write
              /\ file' = [exists |-> TRUE, text |-> <<>>]
              /\ fileOps' = OpsOf(file, u)
        /\ pre' = file
        /\ prevPort' = NoPort
        /\ lastPort' = p
        /\ ret' = "OSError"

NextEnv ==
    \/ \E p \in PortChoices : UpdateEnvPort(p) /\ UNCHANGED <<negVars, stdout, auxVars>>
    \/ \E p \in PortChoices : UpdateEnvPortRaises(p) /\ UNCHANGED <<negVars, stdout, auxVars>>

SpecEnv == InitEnv /\ [][NextEnv]_vars

-----------------------------------------------------------------------------
(* two calls of update_env_port on the same path at the same time *)

RaceLines == {FooLine, CommentLine, NewAssignment(BasePort)}

\* the env files the two calls can find, with at most one line with key PORT
RaceFiles ==
    {f \in {NoFile} \cup
            {[exists |-> TRUE, text |-> Join(ls, LF) \o t] :
                ls \in UNION {[1..k -> RaceLines] : k \in 0..MaxLines},
                t \in {<<>>, <<LF>>}} :
        Cardinality(PortIndexes(ReadLines(f))) <= 1}

\* a call that has read its lines scans them: it returns False, or goes on
\* to write_text with the lines it made
AfterScan(c, lines) ==
    LET u == Updated(lines, c.port)
    IN  IF u.write THEN [c EXCEPT !.pc = "open", !.lines = u.lines]
        ELSE [c EXCEPT !.pc = "done", !.lines = u.lines, !.ret = "False"]

\* the file after a write of data at offset 0 through a descriptor that was
\* opened with truncation: what another writer put beyond the data stays
Overwritten(text, data) == data \o SubSeq(text, Len(data) + 1, Len(text))

InitRace ==
    /\ file \in RaceFiles
    /\ pre = file
    /\ lastPort = NoPort
    /\ prevPort = NoPort
    /\ ret = "none"
    /\ fileOps = <<>>
    /\ pc = "lib"
    /\ host = "0.0.0.0"
    /\ initial_port = BasePort
    /\ port = BasePort
    /\ probes = <<>>
    /\ ttyChecks = <<>>
    /\ prompts = <<>>
    /\ retries = 0
    /\ reads = <<>>
    /\ answer = NoAnswer
    /\ yes = 0
    /\ exitStatus = NoExit
    /\ stdout = <<>>
    /\ net = NoNet
    /\ candidates = <<>>
    /\ addr_info_list = <<>>
    /\ dialled = <<>>
    /\ inUse = "none"
    /\ \E p1 \in PortChoices, p2 \in PortChoices :
        calls = <<[pc |-> "exists", port |-> p1, lines |-> <<>>, ret |-> "none"],
                  [pc |-> "exists", port |-> p2, lines |-> <<>>, ret |-> "none"]>>

\* path.exists(): when there is no file the lines are [] and the scan follows
PathExists(i) ==
    /\ calls[i].pc = "exists"
    /\ calls' = [calls EXCEPT ![i] =
                    IF file.exists THEN [@ EXCEPT !.pc = "read"]
                    ELSE AfterScan(@, <<>>)]
    /\ UNCHANGED file

\* path.read_text(encoding="utf-8").splitlines(), and the scan of the lines
ReadTextLines(i) ==
    /\ calls[i].pc = "read"
    /\ calls' = [calls EXCEPT ![i] = AfterScan(@, SplitLines(ReadText(file)))]
    /\ UNCHANGED file

\* write_text opens the file for writing: it is created or truncated
OpenForWriting(i) ==
    /\ calls[i].pc = "open"
    /\ file' = [exists |-> TRUE, text |-> <<>>]
    /\ calls' = [calls EXCEPT ![i].pc = "write"]

\* write_text writes the text and closes the file; the call returns True
WriteData(i) ==
    /\ calls[i].pc = "write"
    /\ file' = [exists |-> TRUE,
                text |-> Overwritten(file.text, WrittenText(calls[i].lines))]
    /\ calls' = [calls EXCEPT ![i].pc = "done", ![i].ret = "True"]

raceFrame == <<pre, lastPort, prevPort, ret, fileOps, negVars, stdout, probeVars>>

NextRace ==
    \/ \E i \in 1..2 : PathExists(i) /\ UNCHANGED raceFrame
    \/ \E i \in 1..2 : ReadTextLines(i) /\ UNCHANGED raceFrame
    \/ \E i \in 1..2 : OpenForWriting(i) /\ UNCHANGED raceFrame
    \/ \E i \in 1..2 : WriteData(i) /\ UNCHANGED raceFrame

SpecRace == InitRace /\ [][NextRace]_vars


-----------------------------------------------------------------------------
(* is_port_in_use *)

NoneHost == "<None>"

Hosts == {"0.0.0.0", "", NoneHost, "::", "::0", "localhost", "nohost", "a..b"}

\* bug: the host is yielded as it is, the wildcards too
IterHosts_NoLoopback(h) == <<h>>

\* the candidates _iter_hosts_for_port_check yields, in order
IterHosts(h) ==
    IF h \in {"0.0.0.0", "", NoneHost} THEN <<"127.0.0.1">>
    ELSE IF h \in {"::", "::0"} THEN <<"::1">>
    ELSE <<h>>

\* what getaddrinfo can make of a candidate: the addresses it resolves to, in
\* order, or GaiError when it does not resolve, or LabelError
Resolutions(candidate) ==
    IF candidate = "127.0.0.1" THEN {<<"127.0.0.1">>}
    ELSE IF candidate = "::1" THEN {<<"::1">>}
    ELSE IF candidate = "localhost"
         THEN {<<"::1", "127.0.0.1">>, <<"127.0.0.1">>, GaiError}
    ELSE IF candidate = "a..b" THEN {LabelError}
         ELSE {GaiError}

\* getaddrinfo with a port above 65535: the C library either refuses the
\* service (gaierror) or keeps the low 16 bits of the number
ResolutionsFor(candidate, p) ==
    IF p > MaxTcpPort /\ Resolutions(candidate) # {LabelError}
    THEN Resolutions(candidate) \cup {GaiError}
    ELSE Resolutions(candidate)

\* the addresses on which a listener can accept a connection to the port
\* that is dialled for p: none on port 0
Listeners(p) ==
    IF p % (MaxTcpPort + 1) = 0 THEN {{}} ELSE SUBSET {"127.0.0.1", "::1"}

\* what the network can be at the time of one probe of port p: the addresses
\* the candidate resolves to and the addresses on which a listener accepts
Nets(h, p) ==
    {[addrs |-> a, listening |-> l] :
        a \in ResolutionsFor(IterHosts(h)[1], p), l \in Listeners(p)}

\* sock.connect_ex(sockaddr): 0, or the errno of a refused or timed out connection
ConnectEx(sockaddr, n) == IF sockaddr \in n.listening THEN 0 ELSE 111

\* bug: the test of the result of connect_ex is inverted
ConnectSucceeded_Inverted(code) == code # 0

\* sock.connect_ex(sockaddr) == 0
ConnectSucceeded(code) == code = 0

\* the result of the loop over the candidates and over the resolved
\* addresses, when getaddrinfo does not raise LabelError
IsPortInUse(h, p, n) ==
    \E c \in 1..Len(IterHosts(h)) :
        /\ n.addrs # GaiError
        /\ \E i \in 1..Len(n.addrs) : ConnectSucceeded(ConnectEx(n.addrs[i], n))

ProbePorts == {BasePort, MaxTcpPort, MaxTcpPort + 1}

\* one call is_port_in_use(host, port), followed step by step
InitProbe ==
    /\ file = NoFile
    /\ pre = file
    /\ lastPort = NoPort
    /\ prevPort = NoPort
    /\ ret = "none"
    /\ fileOps = <<>>
    /\ pc = "Iterating"
    /\ host \in Hosts
    /\ port \in ProbePorts
    /\ initial_port = port
    /\ probes = <<>>
    /\ ttyChecks = <<>>
    /\ prompts = <<>>
    /\ retries = 0
    /\ reads = <<>>
    /\ answer = NoAnswer
    /\ yes = 0
    /\ exitStatus = NoExit
    /\ stdout = <<>>
    /\ net \in Nets(host, port)
    /\ candidates = IterHosts(host)
    /\ addr_info_list = <<>>
    /\ dialled = <<>>
    /\ inUse = "none"
    /\ calls = <<>>

\* socket.getaddrinfo(candidate, port, type=socket.SOCK_STREAM) returns the addresses
Getaddrinfo ==
    /\ pc = "Iterating"
    /\ candidates # <<>>
    /\ net.addrs \notin {GaiError, LabelError}
    /\ dialled' = Append(dialled, <<"getaddrinfo", Head(candidates)>>)
    /\ addr_info_list' = net.addrs
    /\ candidates' = Tail(candidates)
    /\ pc' = "Connecting"
    /\ UNCHANGED <<net, inUse>>

\* getaddrinfo raises socket.gaierror: a warning is logged and the loop goes
\* on with the next candidate
GetaddrinfoFails ==
    /\ pc = "Iterating"
    /\ candidates # <<>>
    /\ net.addrs = GaiError
    /\ dialled' = Append(dialled, <<"getaddrinfo", Head(candidates)>>)
    /\ candidates' = Tail(candidates)
    /\ pc' = "Iterating"
    /\ UNCHANGED <<net, addr_info_list, inUse>>

\* getaddrinfo raises UnicodeError, which except socket.gaierror does not
\* catch: the exception leaves is_port_in_use
GetaddrinfoRaises ==
    /\ pc = "Iterating"
    /\ candidates # <<>>
    /\ net.addrs = LabelError
    /\ dialled' = Append(dialled, <<"getaddrinfo", Head(candidates)>>)
    /\ pc' = "ProbeRaised"
    /\ UNCHANGED <<net, candidates, addr_info_list, inUse>>

\* one turn of the inner loop: a socket with a timeout of 0.5 s, connect_ex,
\* return True when it gives 0
Connect ==
    /\ pc = "Connecting"
    /\ addr_info_list # <<>>
    /\ LET sockaddr == Head(addr_info_list)
           rest == Tail(addr_info_list)
       IN  /\ dialled' = Append(dialled, <<"connect", sockaddr>>)
           /\ IF ConnectSucceeded(ConnectEx(sockaddr, net))
              THEN /\ inUse' = "True"
                   /\ pc' = "ProbeReturned"
                   /\ UNCHANGED addr_info_list
              ELSE /\ addr_info_list' = rest
                   /\ pc' = IF rest = <<>> THEN "Iterating" ELSE "Connecting"
                   /\ UNCHANGED inUse
    /\ UNCHANGED <<net, candidates>>

\* the loop over the candidates is over: return False
ReturnFalse ==
    /\ pc = "Iterating"
    /\ candidates = <<>>
    /\ inUse' = "False"
    /\ pc' = "ProbeReturned"
    /\ UNCHANGED <<net, candidates, addr_info_list, dialled>>

probeFrame == <<envVars, host, initial_port, port, probes, ttyChecks, prompts,
                retries, reads, answer, yes, exitStatus, stdout, calls>>

NextProbe ==
    \/ Getaddrinfo /\ UNCHANGED probeFrame
    \/ GetaddrinfoFails /\ UNCHANGED probeFrame
    \/ GetaddrinfoRaises /\ UNCHANGED probeFrame
    \/ Connect /\ UNCHANGED probeFrame
    \/ ReturnFalse /\ UNCHANGED probeFrame

SpecProbe == InitProbe /\ [][NextProbe]_vars

-----------------------------------------------------------------------------
(* prompt_for_available_port *)

Lower(s) ==
    [i \in 1..Len(s) |-> IF s[i] = "Y" THEN "y" ELSE IF s[i] = "N" THEN "n" ELSE s[i]]

\* what input() can return, and the two exceptions the loop catches
InputLines ==
    {<<"y">>, <<"Y">>, <<SP, "y", SP>>, <<"n">>, <<"N", TAB>>,
     <<>>, <<"y", "e", "s">>, <<"x">>}
InputErrors == {<<"EOFError">>, <<"KeyboardInterrupt">>}

Choice(line) == Lower(Strip(line))

\* bug: the test of the probe is inverted
AfterProbe_Inverted(occupied) == IF occupied THEN "Resolved" ELSE "TtyCheck"

\* bug: a non-interactive stdin does not end the process
AfterTty_NoAbort(isatty) == "Prompting"

\* bug: 'n' leaves the function with the occupied port instead of exiting
AfterChoice_DeclineReturns(choice) ==
    IF choice = <<"y">> THEN "Checking"
    ELSE IF choice = <<"n">> THEN "Resolved"
    ELSE "Prompting"

\* bug: only 'n' is tested, anything else is taken for 'y'
AfterChoice_MalformedIsYes(choice) ==
    IF choice = <<"n">> THEN "Aborted" ELSE "Checking"

\* bug: EOFError and KeyboardInterrupt are not caught
ReadFails_Uncaught ==
    /\ pc = "Reading"
    /\ \E e \in InputErrors :
        /\ reads' = Append(reads, port)
        /\ answer' = e
        /\ pc' = "Crashed"
        /\ exitStatus' = 1
    /\ UNCHANGED <<envVars, host, initial_port, port, probes, ttyChecks,
                   prompts, retries, yes, stdout>>

\* bug: the port offered is skipped
NextPort_Skip(p) == p + 2

\* where the outer loop goes after a probe: return port, or on to the tty check
AfterProbe(occupied) == IF occupied THEN "TtyCheck" ELSE "Resolved"

\* where the loop goes after sys.stdin.isatty(): SystemExit(1) when it is false
AfterTty(isatty) == IF isatty THEN "Prompting" ELSE "Aborted"

\* where the inner loop goes after an answer: 'y' leaves it for the next
\* probe, 'n' raises SystemExit(1), anything else asks again
AfterChoice(choice) ==
    IF choice = <<"y">> THEN "Checking"
    ELSE IF choice = <<"n">> THEN "Aborted"
    ELSE "Prompting"

\* port += 1
NextPort(p) == p + 1

\* is_port_in_use(host, port) at the top of the outer loop
Probe ==
    /\ pc = "Checking"
    /\ \E n \in Nets(host, port) :
        LET occupied == IsPortInUse(host, port, n)
        IN  /\ n.addrs # LabelError
            /\ probes' = Append(probes, [port |-> port, inUse |-> occupied])
            /\ pc' = AfterProbe(occupied)
    /\ UNCHANGED <<envVars, host, initial_port, port, ttyChecks, prompts,
                   retries, reads, answer, yes, exitStatus, stdout>>

\* is_port_in_use(host, port) raises UnicodeError: nothing catches it, the
\* exception ends the process
ProbeRaises ==
    /\ pc = "Checking"
    /\ \E n \in Nets(host, port) : n.addrs = LabelError
    /\ pc' = "ProbeRaised"
    /\ exitStatus' = 1
    /\ UNCHANGED <<envVars, host, initial_port, port, probes, ttyChecks, prompts,
                   retries, reads, answer, yes, stdout>>

\* sys.stdin.isatty() after an occupied port
TtyCheck ==
    /\ pc = "TtyCheck"
    /\ \E isatty \in BOOLEAN :
        /\ ttyChecks' = Append(ttyChecks, [port |-> port, isatty |-> isatty])
        /\ pc' = AfterTty(isatty)
    /\ exitStatus' = IF pc' = "Aborted" THEN 1 ELSE exitStatus
    /\ UNCHANGED <<envVars, host, initial_port, port, probes, prompts,
                   retries, reads, answer, yes, stdout>>

\* the prompt is written to stderr
Prompt ==
    /\ pc = "Prompting"
    /\ prompts' = Append(prompts, [port |-> port, next |-> port + 1])
    /\ pc' = "Reading"
    /\ UNCHANGED <<envVars, host, initial_port, port, probes, ttyChecks,
                   retries, reads, answer, yes, exitStatus, stdout>>

\* input() returns a line
ReadAnswer ==
    /\ pc = "Reading"
    /\ \E line \in InputLines :
        LET choice == Choice(line)
        IN  /\ reads' = Append(reads, port)
            /\ answer' = line
            /\ pc' = AfterChoice(choice)
            /\ choice = <<"y">> => port - initial_port < MaxIncrements
            /\ port' = IF choice = <<"y">> THEN NextPort(port) ELSE port
            /\ yes' = IF choice = <<"y">> THEN yes + 1 ELSE yes
    /\ pc' = "Prompting" => retries < MaxMalformed
    /\ retries' = IF pc' = "Prompting" THEN retries + 1 ELSE retries
    /\ exitStatus' = IF pc' = "Aborted" THEN 1 ELSE exitStatus
    /\ UNCHANGED <<envVars, host, initial_port, probes, ttyChecks, prompts, stdout>>

\* input() raises EOFError or KeyboardInterrupt
ReadFails ==
    /\ pc = "Reading"
    /\ \E e \in InputErrors :
        /\ reads' = Append(reads, port)
        /\ answer' = e
        /\ pc' = "Aborted"
        /\ exitStatus' = 1
    /\ UNCHANGED <<envVars, host, initial_port, port, probes, ttyChecks,
                   prompts, retries, yes, stdout>>

-----------------------------------------------------------------------------
(* main *)

MainFiles == FilesUpTo(MaxMainLines)

MainHosts == {"0.0.0.0", "::", "localhost", "nohost", "a..b"}

\* settings.PORT: an ordinary port and the largest one
InitialPorts == {BasePort, MaxTcpPort}

Init ==
    /\ file \in MainFiles
    /\ pre = file
    /\ lastPort = NoPort
    /\ prevPort = NoPort
    /\ ret = "none"
    /\ fileOps = <<>>
    /\ pc = "Checking"
    /\ host \in MainHosts
    /\ initial_port \in InitialPorts
    /\ port = initial_port
    /\ probes = <<>>
    /\ ttyChecks = <<>>
    /\ prompts = <<>>
    /\ retries = 0
    /\ reads = <<>>
    /\ answer = NoAnswer
    /\ yes = 0
    /\ exitStatus = NoExit
    /\ stdout = <<>>
    /\ ProbeIdle

\* one call prompt_for_available_port(host, initial_port), up to its return or
\* to the end of the process
InitNegotiation ==
    /\ file = NoFile
    /\ pre = file
    /\ lastPort = NoPort
    /\ prevPort = NoPort
    /\ ret = "none"
    /\ fileOps = <<>>
    /\ pc = "Checking"
    /\ host \in MainHosts
    /\ initial_port \in InitialPorts
    /\ port = initial_port
    /\ probes = <<>>
    /\ ttyChecks = <<>>
    /\ prompts = <<>>
    /\ retries = 0
    /\ reads = <<>>
    /\ answer = NoAnswer
    /\ yes = 0
    /\ exitStatus = NoExit
    /\ stdout = <<>>
    /\ ProbeIdle

\* the steps the program takes by itself
ProgramStep == (Probe \/ ProbeRaises \/ TtyCheck \/ Prompt) /\ UNCHANGED auxVars

\* the steps that wait for the operator: input() returns or raises
OperatorStep == (ReadAnswer \/ ReadFails) /\ UNCHANGED auxVars

NextNegotiation ==
    \/ Probe /\ UNCHANGED auxVars
    \/ ProbeRaises /\ UNCHANGED auxVars
    \/ TtyCheck /\ UNCHANGED auxVars
    \/ Prompt /\ UNCHANGED auxVars
    \/ ReadAnswer /\ UNCHANGED auxVars
    \/ ReadFails /\ UNCHANGED auxVars

\* a probe returns within the timeouts of its connects, isatty() and the
\* write of the prompt return at once: the program's own steps are taken;
\* input() blocks until the operator answers, so nothing forces its return
SpecNegotiation ==
    InitNegotiation /\ [][NextNegotiation]_vars /\ WF_vars(ProgramStep)

\* bug: the host is printed before update_env_port is called
MainUpdateRaises_HostPrinted ==
    /\ pc = "Resolved"
    /\ UpdateEnvPortRaises(port)
    /\ pc' = "Crashed"
    /\ exitStatus' = 1
    /\ stdout' = Append(stdout, host)
    /\ UNCHANGED <<host, initial_port, port, probes, ttyChecks, prompts,
                   retries, reads, answer, yes>>

\* bug: the flag is printed the wrong way round
Flag_Inverted(r) == IF r = "True" THEN "0" ELSE "1"

\* "1" if changed else "0"
Flag(r) == IF r = "True" THEN "1" ELSE "0"

\* changed = update_env_port(port)
MainUpdate ==
    /\ pc = "Resolved"
    /\ UpdateEnvPort(port)
    /\ pc' = "PrintHost"
    /\ UNCHANGED <<host, initial_port, port, probes, ttyChecks, prompts,
                   retries, reads, answer, yes, exitStatus, stdout>>

\* update_env_port(port) raises: the exception ends the process
MainUpdateRaises ==
    /\ pc = "Resolved"
    /\ UpdateEnvPortRaises(port)
    /\ pc' = "Crashed"
    /\ exitStatus' = 1
    /\ UNCHANGED <<host, initial_port, port, probes, ttyChecks, prompts,
                   retries, reads, answer, yes, stdout>>

PrintHost ==
    /\ pc = "PrintHost"
    /\ stdout' = Append(stdout, host)
    /\ pc' = "PrintPort"
    /\ UNCHANGED <<envVars, host, initial_port, port, probes, ttyChecks,
                   prompts, retries, reads, answer, yes, exitStatus>>

PrintPort ==
    /\ pc = "PrintPort"
    /\ stdout' = Append(stdout, Str(port))
    /\ pc' = "PrintFlag"
    /\ UNCHANGED <<envVars, host, initial_port, port, probes, ttyChecks,
                   prompts, retries, reads, answer, yes, exitStatus>>

PrintFlag ==
    /\ pc = "PrintFlag"
    /\ stdout' = Append(stdout, Flag(ret))
    /\ pc' = "Done"
    /\ exitStatus' = 0
    /\ UNCHANGED <<envVars, host, initial_port, port, probes, ttyChecks,
                   prompts, retries, reads, answer, yes>>

Next ==
    \/ Probe /\ UNCHANGED auxVars
    \/ ProbeRaises /\ UNCHANGED auxVars
    \/ TtyCheck /\ UNCHANGED auxVars
    \/ Prompt /\ UNCHANGED auxVars
    \/ ReadAnswer /\ UNCHANGED auxVars
    \/ ReadFails /\ UNCHANGED auxVars
    \/ MainUpdate /\ UNCHANGED auxVars
    \/ MainUpdateRaises /\ UNCHANGED auxVars
    \/ PrintHost /\ UNCHANGED auxVars
    \/ PrintPort /\ UNCHANGED auxVars
    \/ PrintFlag /\ UNCHANGED auxVars

Spec == Init /\ [][Next]_vars

-----------------------------------------------------------------------------
(* Properties of update_env_port, checked under SpecEnv *)

\* the last call of update_env_port returned
Returned == ret \in {"True", "False"}

LinesBefore == ReadLines(pre)
LinesAfter == ReadLines(file)

PortLineCount(f) == Cardinality(PortIndexes(ReadLines(f)))

EndsWithNewline(f) == f.exists /\ f.text # <<>> /\ f.text[Len(f.text)] = LF

Wrote == \E i \in DOMAIN fileOps : fileOps[i] = "write_text"

\* C1 as stated: after any call that returns, on any initial content, the
\* file holds at most one line with key PORT.
C1_AtMostOnePortLine == Returned => PortLineCount(file) <= 1

\* C1, amended: a call that returns leaves exactly one line with key PORT
\* when the file held at most one before, and leaves as many as there were
\* when it held several (only the first is rewritten).
C1_PortLineCount ==
    Returned =>
        PortLineCount(file) =
            (IF PortLineCount(pre) = 0 THEN 1 ELSE PortLineCount(pre))

C1_Witness ==
    /\ ret = "True"
    /\ PortLineCount(pre) = 2
    /\ PortLineCount(file) = 2
    /\ file # pre

\* C2: of two calls in a row with the same port, the first returns true only
\* if it changed the file, the second returns false and leaves the file as
\* the first call left it.
C2_SecondCallIsNoOp ==
    /\ (ret = "True" => file # pre)
    /\ (Returned /\ lastPort # NoPort /\ prevPort = lastPort) =>
            (ret = "False" /\ file = pre)

C2_Witness ==
    /\ Returned
    /\ prevPort = lastPort
    /\ lastPort # NoPort
    /\ ret = "False"
    /\ file.exists
    /\ PortLineCount(file) >= 1

\* C3: a call that returns changes at most one line: every line but the
\* first line with key PORT is still there, with the same text at the same
\* index, and a replacement sits at the index of the line it replaced.
C3_OtherLinesKept ==
    Returned =>
        LET before == LinesBefore
            after == LinesAfter
            idx == FirstPortIndex(before)
        IN  /\ Len(after) >= Len(before)
            /\ \A i \in 1..Len(before) : i # idx => after[i] = before[i]
            /\ Cardinality({i \in 1..Len(after) :
                    i > Len(before) \/ after[i] # before[i]}) <= 1
            /\ (idx # 0 /\ ret = "True") =>
                    /\ Len(after) = Len(before)
                    /\ after[idx] = NewAssignment(lastPort)

C3_Witness ==
    /\ ret = "True"
    /\ PortLineCount(pre) >= 2
    /\ PortLineCount(file) >= 2
    /\ FirstPortIndex(LinesBefore) # 0
    /\ LinesAfter[FirstPortIndex(LinesBefore)] = NewAssignment(lastPort)
    /\ LinesAfter # LinesBefore

\* C4: the call returns false exactly when the first line with key PORT,
\* trimmed, is the assignment wanted, and then writes nothing; otherwise it
\* writes, returns true, and what it wrote differs from what it read.
C4_FalseIffAlreadySet ==
    Returned =>
        LET before == LinesBefore
            idx == FirstPortIndex(before)
            already == idx # 0 /\ Strip(before[idx]) = NewAssignment(lastPort)
        IN  /\ (ret = "False") <=> already
            /\ ret = "False" => (~ Wrote /\ file = pre)
            /\ ret = "True" =>
                    /\ Wrote
                    /\ file # pre
                    /\ file.exists
                    /\ pre.exists => file.text # ReadText(pre)

C4_Witness ==
    /\ ret = "False"
    /\ file = pre
    /\ ~ Wrote
    /\ LinesBefore[FirstPortIndex(LinesBefore)] # NewAssignment(lastPort)

\* C5: with no line with key PORT (or no file) the call appends the one
\* line PORT=<p> after the lines there were and returns true; on a file that
\* did not exist the text is exactly that line and a newline.
C5_AppendsWhenAbsent ==
    (Returned /\ FirstPortIndex(LinesBefore) = 0) =>
        /\ ret = "True"
        /\ LinesAfter = Append(LinesBefore, NewAssignment(lastPort))
        /\ ~ pre.exists =>
                (file.exists /\ file.text = NewAssignment(lastPort) \o <<LF>>)

C5_Witness ==
    /\ ret = "True"
    /\ pre.exists
    /\ Len(LinesBefore) >= 2
    /\ FirstPortIndex(LinesBefore) = 0
    /\ Len(LinesAfter) = Len(LinesBefore) + 1

\* C6 as stated: after every call that returns, true or false, the file
\* ends with a newline.
C6_AlwaysEndsWithNewline == Returned => EndsWithNewline(file)

\* C6, amended: after a call that returns true the file ends with a newline;
\* a call that returns false leaves the file as it was, so it ends with a
\* newline exactly when it did before the call.
C6_EndsWithNewlineWhenWritten ==
    /\ ret = "True" => EndsWithNewline(file)
    /\ ret = "False" => (EndsWithNewline(file) <=> EndsWithNewline(pre))

C6_Witness ==
    /\ ret = "True"
    /\ pre.exists
    /\ pre.text # <<>>
    /\ ~ EndsWithNewline(pre)
    /\ EndsWithNewline(file)

-----------------------------------------------------------------------------
(* Properties of prompt_for_available_port and main, checked under Spec *)

\* prompt_for_available_port returned
ReturnedPcs == {"Resolved", "PrintHost", "PrintPort", "PrintFlag", "Done", "Crashed"}

\* C7: when the first probe reports initial_port free, the function returns
\* initial_port after that one probe, with no prompt written, no input read
\* and isatty never consulted.
C7_FreeInitialPort ==
    (probes # <<>> /\ ~ probes[1].inUse) =>
        /\ pc \in ReturnedPcs
        /\ port = initial_port
        /\ probes = <<[port |-> initial_port, inUse |-> FALSE]>>
        /\ prompts = <<>>
        /\ retries = 0
        /\ reads = <<>>
        /\ answer = NoAnswer
        /\ ttyChecks = <<>>
        /\ yes = 0

C7_Witness ==
    /\ pc = "Resolved"
    /\ probes = <<[port |-> initial_port, inUse |-> FALSE]>>
    /\ port = initial_port
    /\ ttyChecks = <<>>

\* C8: a returned port r is initial_port plus the number of 'y' answers; the
\* ports probed are initial_port, initial_port + 1, ..., r, each once, all
\* but r reported occupied and r reported free by the last probe.
C8_ReturnsFirstFreePort ==
    pc \in ReturnedPcs =>
        /\ port = initial_port + yes
        /\ Len(probes) = port - initial_port + 1
        /\ \A i \in 1..Len(probes) :
                /\ probes[i].port = initial_port + i - 1
                /\ probes[i].inUse = (i < Len(probes))

C8_Witness ==
    /\ pc = "Resolved"
    /\ yes = 2
    /\ port = initial_port + 2
    /\ Len(probes) = 3
    /\ probes[1].inUse
    /\ probes[2].inUse
    /\ ~ probes[3].inUse

Declined == Choice(answer) = <<"n">>
InputFailed == answer \in InputErrors

\* C9: after the answer 'n', or after input() raised EOFError or
\* KeyboardInterrupt, the process has ended with exit status 1 and main has
\* not called update_env_port: the env file was neither read nor written.
C9_DeclineAborts ==
    (Declined \/ InputFailed) =>
        /\ pc = "Aborted"
        /\ exitStatus = 1
        /\ fileOps = <<>>
        /\ ret = "none"
        /\ lastPort = NoPort
        /\ file = pre
        /\ probes[Len(probes)] = [port |-> port, inUse |-> TRUE]
        /\ ttyChecks[Len(ttyChecks)] = [port |-> port, isatty |-> TRUE]

C9_Witness ==
    /\ Declined
    /\ answer # <<"n">>
    /\ pc = "Aborted"
    /\ exitStatus = 1
    /\ file.exists
    /\ fileOps = <<>>

\* C10: when a probe reported a port occupied and isatty() is then false, on
\* the initial port or on a later one, the process ends with exit status 1
\* and no prompt was written and no input read for that port.
C10_NonInteractiveAborts ==
    \A i \in DOMAIN ttyChecks :
        ~ ttyChecks[i].isatty =>
            /\ i = Len(ttyChecks)
            /\ pc = "Aborted"
            /\ exitStatus = 1
            /\ probes[Len(probes)] = [port |-> ttyChecks[i].port, inUse |-> TRUE]
            /\ \A j \in DOMAIN prompts : prompts[j].port # ttyChecks[i].port
            /\ \A j \in DOMAIN reads : reads[j] # ttyChecks[i].port

C10_Witness ==
    /\ Len(ttyChecks) = 2
    /\ ttyChecks[1].isatty
    /\ ~ ttyChecks[2].isatty
    /\ ttyChecks[2].port = initial_port + 1
    /\ pc = "Aborted"
    /\ exitStatus = 1

\* an answer that is neither 'y' nor 'n' once trimmed and lowercased
Malformed(line) ==
    /\ line # NoAnswer
    /\ line \notin InputErrors
    /\ Choice(line) \notin {<<"y">>, <<"n">>}

\* C11: after a malformed answer the run stays in the prompt loop: the port
\* is the one the answer was read for, no probe was run since, the process
\* has not ended, and the prompt written next is the same prompt again, for
\* the same port and the same candidate.
C11_MalformedAsksAgain ==
    Malformed(answer) =>
        /\ pc \in {"Prompting", "Reading"}
        /\ exitStatus = NoExit
        /\ port = reads[Len(reads)]
        /\ port = initial_port + yes
        /\ Len(probes) = yes + 1
        /\ probes[Len(probes)] = [port |-> port, inUse |-> TRUE]
        /\ Len(ttyChecks) = yes + 1
        /\ Len(prompts) = Len(reads) + (IF pc = "Reading" THEN 1 ELSE 0)
        /\ prompts[Len(reads)] = [port |-> port, next |-> port + 1]
        /\ pc = "Reading" =>
                prompts[Len(prompts)] = prompts[Len(prompts) - 1]

C11_Witness ==
    /\ Malformed(answer)
    /\ retries = 2
    /\ pc = "Reading"
    /\ Len(prompts) = 3
    /\ prompts[1] = prompts[2]
    /\ prompts[2] = prompts[3]
    /\ reads = <<port, port>>

\* C12: nothing is on standard output until negotiation has returned and
\* update_env_port has returned: none after an abort of the negotiation and
\* none after a failure of the file update.
C12_NoOutputBeforeSuccess ==
    /\ stdout # <<>> =>
            /\ pc \in {"PrintPort", "PrintFlag", "Done"}
            /\ ret \in {"True", "False"}
            /\ probes[Len(probes)] = [port |-> port, inUse |-> FALSE]
    /\ pc \in {"Aborted", "Crashed", "ProbeRaised"} => (stdout = <<>> /\ exitStatus = 1)

C12_Witness ==
    /\ pc = "Crashed"
    /\ ret = "OSError"
    /\ file # pre
    /\ stdout = <<>>

\* the text right of the first "=" of a line, trimmed
ValueOf(line) ==
    LET stripped == Strip(line)
    IN  Strip(SubSeq(stripped, IndexOf(stripped, "=") + 1, Len(stripped)))

\* C13: a run that succeeds has printed three lines: the configured host,
\* the port negotiation returned, which is the value of the first PORT line
\* of the env file, and "1" if update_env_port changed the file, else "0".
C13_OutputContract ==
    pc = "Done" =>
        /\ exitStatus = 0
        /\ Len(stdout) = 3
        /\ stdout[1] = host
        /\ stdout[2] = Str(port)
        /\ probes[Len(probes)] = [port |-> port, inUse |-> FALSE]
        /\ FirstPortIndex(LinesAfter) # 0
        /\ ValueOf(LinesAfter[FirstPortIndex(LinesAfter)]) = stdout[2]
        /\ stdout[3] \in {"0", "1"}
        /\ (stdout[3] = "1") <=> (file # pre)
        /\ (stdout[3] = "1") <=> (ret = "True")

C13_Witness ==
    /\ pc = "Done"
    /\ yes = 1
    /\ stdout = <<host, Str(initial_port + 1), "0">>
    /\ file = pre

-----------------------------------------------------------------------------
(* Properties of is_port_in_use, checked under SpecProbe *)

\* the address the probe is to dial for a host
ExpectedAddress(h) ==
    IF h \in {"", NoneHost, "0.0.0.0"} THEN "127.0.0.1"
    ELSE IF h \in {"::", "::0"} THEN "::1"
    ELSE h

\* the addresses connect_ex was called with, in order
Connects ==
    LET c == SelectSeq(dialled, LAMBDA d : d[1] = "connect")
    IN  [i \in 1..Len(c) |-> c[i][2]]

\* the names getaddrinfo was called with, in order
Lookups ==
    LET c == SelectSeq(dialled, LAMBDA d : d[1] = "getaddrinfo")
    IN  [i \in 1..Len(c) |-> c[i][2]]

\* C14: getaddrinfo is called once, with 127.0.0.1 for the hosts "", None
\* and 0.0.0.0, with ::1 for :: and ::0, with the host itself otherwise, and
\* for the wildcards no other address is dialled; is_port_in_use("0.0.0.0", P)
\* returns true exactly when a listener accepts on 127.0.0.1, and a probe
\* returns false when nothing listens.
C14_DialledAddress ==
    /\ \A i \in 1..Len(Lookups) : Lookups[i] = ExpectedAddress(host)
    /\ pc \in {"Connecting", "ProbeReturned", "ProbeRaised"} =>
            Lookups = <<ExpectedAddress(host)>>
    /\ host \in {"", NoneHost, "0.0.0.0", "::", "::0"} =>
            \A i \in 1..Len(Connects) : Connects[i] = ExpectedAddress(host)
    /\ (pc = "ProbeReturned" /\ host = "0.0.0.0") =>
            (inUse = "True" <=> "127.0.0.1" \in net.listening)
    /\ (pc = "ProbeReturned" /\ net.listening = {}) => inUse = "False"

C14_Witness ==
    /\ pc = "ProbeReturned"
    /\ host = "0.0.0.0"
    /\ net.listening = {"127.0.0.1"}
    /\ inUse = "True"
    /\ dialled = <<<<"getaddrinfo", "127.0.0.1">>, <<"connect", "127.0.0.1">>>>

\* the addresses the candidate resolved to, none when resolution failed
ResolvedAddrs == IF net.addrs \in {GaiError, LabelError} THEN <<>> ELSE net.addrs

Accepts(a) == a \in net.listening

\* the resolved addresses up to the first that accepts, all of them when none does
UpToFirstAccepting ==
    LET hits == {i \in 1..Len(ResolvedAddrs) : Accepts(ResolvedAddrs[i])}
    IN  IF hits = {} THEN ResolvedAddrs
        ELSE SubSeq(ResolvedAddrs, 1, CHOOSE i \in hits : \A j \in hits : i <= j)

ProbeEnded == pc \in {"ProbeReturned", "ProbeRaised"}

\* what C15 says of a call that returned
ProbeContract ==
    /\ inUse = "True" <=> \E i \in 1..Len(ResolvedAddrs) : Accepts(ResolvedAddrs[i])
    /\ Connects = UpToFirstAccepting
    /\ ResolvedAddrs = <<>> => (inUse = "False" /\ Connects = <<>>)
    /\ (inUse = "True") = IsPortInUse(host, port, net)

\* C15 as stated: a call of is_port_in_use ends by returning, never by an
\* error; it returns true exactly when a resolved address accepts, having
\* dialled the resolved addresses in order up to the first that accepts and
\* none after it; it returns false when resolution fails or no address accepts.
C15_TrueIffSomeAddressAccepts ==
    ProbeEnded => (pc = "ProbeReturned" /\ ProbeContract)

\* C15, for the calls that return: the same, without the claim that no
\* error escapes.
C15_ContractWhenReturned == pc = "ProbeReturned" => ProbeContract

\* resolution failed and an error left is_port_in_use
C15_ErrorEscapes ==
    /\ pc = "ProbeRaised"
    /\ host = "a..b"
    /\ net.addrs = LabelError
    /\ inUse = "none"
    /\ dialled = <<<<"getaddrinfo", "a..b">>>>

-----------------------------------------------------------------------------
(* The range of the port, checked under Spec *)

ValidPort(p) == p \in 1..MaxTcpPort

\* C16 as stated: the port is initial_port plus one for each 'y' answer,
\* and with initial_port a valid TCP port the port, while negotiated and once
\* returned, is at most 65535.
C16_PortStaysInRange ==
    /\ port = initial_port + yes
    /\ ValidPort(initial_port) => port <= MaxTcpPort

\* a run that started from a valid port returned 65536
C16_OutOfRangeReturned ==
    /\ pc = "Done"
    /\ initial_port = MaxTcpPort
    /\ yes = 1
    /\ port = MaxTcpPort + 1
    /\ stdout[2] = Str(MaxTcpPort + 1)
    /\ FirstPortIndex(LinesAfter) # 0
    /\ LinesAfter[FirstPortIndex(LinesAfter)] = NewAssignment(MaxTcpPort + 1)

-----------------------------------------------------------------------------
(* Termination of prompt_for_available_port, checked under SpecNegotiation *)

Ended == pc \in {"Resolved", "Aborted"}

\* no step of the negotiation is possible any more
Terminal == ~ENABLED (ProgramStep \/ OperatorStep)

\* some port at or above initial_port is reported free: the last port the
\* bound on the increments lets the run reach is, when it is probed
SomePortFree ==
    \A i \in 1..Len(probes) :
        probes[i].port = initial_port + MaxIncrements => ~probes[i].inUse

\* the function returns only from the probe that reported its port free
ResolvedByFreeProbe ==
    (pc' = "Resolved" /\ pc # "Resolved") =>
        /\ pc = "Checking"
        /\ port' = port
        /\ probes' = Append(probes, [port |-> port, inUse |-> FALSE])

-----------------------------------------------------------------------------
(* Two concurrent calls of update_env_port, checked under SpecRace *)

BothDone == calls # <<>> /\ \A i \in 1..Len(calls) : calls[i].pc = "done"

\* the lines without key PORT, in order
NonPortLines(lines) == SelectSeq(lines, LAMBDA l : ~IsPortLine(l))

\* C18 as stated: when both calls have finished, on a file that started
\* with at most one line with key PORT, the file holds at most one line with
\* key PORT, its value is the port of one of the two calls, and the lines
\* without key PORT are those of the initial file, unchanged and in order.
C18_RaceKeepsFile ==
    BothDone =>
        /\ Cardinality(PortIndexes(LinesAfter)) <= 1
        /\ \A i \in PortIndexes(LinesAfter) :
               ValueOf(LinesAfter[i]) \in {Str(calls[1].port), Str(calls[2].port)}
        /\ NonPortLines(LinesAfter) = NonPortLines(LinesBefore)

\* both calls returned True and a line of the initial file is gone
C18_LineLost ==
    /\ BothDone
    /\ calls[1].ret = "True"
    /\ calls[2].ret = "True"
    /\ LinesBefore = <<FooLine, NewAssignment(BasePort)>>
    /\ LinesAfter = <<NewAssignment(calls[2].port)>>

=============================================================================
